---- MODULE Spec2Model ----
(***************************************************************************)
(* ReMind: a cognitive-test dashboard.  The repository holds two           *)
(* iterations, each a browser script followed by an express server:        *)
(*   src/app.js            accuracy / reaction-time scoring (Variant A);   *)
(*                         the browser script does not talk to the server. *)
(*   src/unnamed/part_000  score-based scoring (Variant B); the browser    *)
(*                         script posts every ingested record to the       *)
(*                         server and replaces its list with the server's  *)
(*                         on every poll.                                  *)
(*                                                                         *)
(* JavaScript values are records [k, n, d]: k is the kind ("num" a finite  *)
(* number n/d in lowest terms, "inf" an infinity of sign n, "nan",         *)
(* "undefined", "null", "str" a non-numeric string).  IEEE doubles are     *)
(* modelled as exact rationals: rounding is not modelled.                  *)
(***************************************************************************)
EXTENDS Integers, Sequences, FiniteSets, TLC

VARIABLES
  program,      \* which program runs: see Programs ("functions": none of them)
  baseline,     \* browser: let baseline = { accuracy, meanReactionMs }
  sessions,     \* browser: let sessions = []
  srvSessions,  \* server:  let sessions = []
  now,          \* browser: the clock new Date() reads
  srvNow,       \* server: the clock Date.now() and new Date() read
  resp,         \* server: the last HTTP response sent
  outbox,       \* part_000: POST /api/results requests in flight
  polls,        \* part_000: GET /api/results requests in flight
  inbox,        \* part_000: GET responses in flight to the browser
  ingested,     \* history: the browser's records, in order of ingestion
  srvIngested,  \* history: the server's records, in order of ingestion
  calc          \* the last call of a scoring function: its inputs and results

vars == <<program, baseline, sessions, srvSessions, now, srvNow, resp, outbox, polls,
          inbox, ingested, srvIngested, calc>>

-----------------------------------------------------------------------------
(* Numbers *)

Abs(i) == IF i < 0 THEN -i ELSE i

RECURSIVE Gcd(_, _)
Gcd(a, b) == IF b = 0 THEN a ELSE Gcd(b, a % b)

\* The finite number n/d, in lowest terms with a positive denominator.
Num(n, d) ==
  LET s == IF d < 0 THEN -1 ELSE 1
      g == Gcd(Abs(n), Abs(d))
  IN  [k |-> "num", n |-> (s * n) \div g, d |-> (s * d) \div g]

Whole(n) == [k |-> "num", n |-> n, d |-> 1]
NaN == [k |-> "nan", n |-> 0, d |-> 1]
PosInf == [k |-> "inf", n |-> 1, d |-> 1]
NegInf == [k |-> "inf", n |-> -1, d |-> 1]
Undefined == [k |-> "undefined", n |-> 0, d |-> 1]
Null == [k |-> "null", n |-> 0, d |-> 1]
\* Strings: only identity and emptiness matter; n numbers them, 0 is "".
EmptyStr == [k |-> "str", n |-> 0, d |-> 1]
PatientP1 == [k |-> "str", n |-> 1, d |-> 1]
Demo01 == [k |-> "str", n |-> 2, d |-> 1]
Str == [k |-> "str", n |-> 3, d |-> 1]

\* typeof x === "number"
IsNumber(x) == x.k \in {"num", "inf", "nan"}
\* Number.isFinite(x)
IsFinite(x) == x.k = "num"
\* Number.isNaN(x)
IsNaN(x) == x.k = "nan"

\* The numeric conversion that arithmetic and comparison apply to an operand.
ToNumber(x) ==
  CASE x.k \in {"num", "inf", "nan"} -> x
    [] x.k = "null" -> Whole(0)
    [] x.k = "str" /\ x.n = 0 -> Whole(0)
    [] OTHER -> NaN

Sign(x) == IF x.n > 0 THEN 1 ELSE IF x.n < 0 THEN -1 ELSE 0

\* a < b
Lt(x, y) ==
  LET a == ToNumber(x)
      b == ToNumber(y)
  IN  CASE a.k = "nan" \/ b.k = "nan" -> FALSE
        [] a.k = "inf" /\ b.k = "inf" -> a.n < b.n
        [] a.k = "inf" -> a.n < 0
        [] b.k = "inf" -> b.n > 0
        [] OTHER -> a.n * b.d < b.n * a.d

\* a > b
Gt(x, y) == Lt(y, x)

\* a <= b
Le(x, y) ==
  LET a == ToNumber(x)
      b == ToNumber(y)
  IN  a.k # "nan" /\ b.k # "nan" /\ ~Lt(b, a)

\* a - b
Sub(x, y) ==
  LET a == ToNumber(x)
      b == ToNumber(y)
  IN  CASE a.k = "nan" \/ b.k = "nan" -> NaN
        [] a.k = "inf" /\ b.k = "inf" -> IF a.n = b.n THEN NaN ELSE a
        [] a.k = "inf" -> a
        [] b.k = "inf" -> IF b.n > 0 THEN NegInf ELSE PosInf
        [] OTHER -> Num(a.n * b.d - b.n * a.d, a.d * b.d)

\* a + b
Add(x, y) ==
  LET a == ToNumber(x)
      b == ToNumber(y)
  IN  CASE a.k = "nan" \/ b.k = "nan" -> NaN
        [] a.k = "inf" /\ b.k = "inf" -> IF a.n = b.n THEN a ELSE NaN
        [] a.k = "inf" -> a
        [] b.k = "inf" -> b
        [] OTHER -> Num(a.n * b.d + b.n * a.d, a.d * b.d)

\* a * b
Mul(x, y) ==
  LET a == ToNumber(x)
      b == ToNumber(y)
      s == Sign(a) * Sign(b)
  IN  CASE a.k = "nan" \/ b.k = "nan" -> NaN
        [] a.k = "inf" \/ b.k = "inf" ->
             IF s = 0 THEN NaN ELSE IF s > 0 THEN PosInf ELSE NegInf
        [] OTHER -> Num(a.n * b.n, a.d * b.d)

\* a / b
Div(x, y) ==
  LET a == ToNumber(x)
      b == ToNumber(y)
      s == Sign(a) * Sign(b)
  IN  CASE a.k = "nan" \/ b.k = "nan" -> NaN
        [] a.k = "inf" /\ b.k = "inf" -> NaN
        [] a.k = "inf" ->
             IF Sign(a) * (IF b.n < 0 THEN -1 ELSE 1) > 0 THEN PosInf ELSE NegInf
        [] b.k = "inf" -> Whole(0)
        [] b.n = 0 ->
             IF a.n = 0 THEN NaN ELSE IF a.n > 0 THEN PosInf ELSE NegInf
        [] OTHER -> Num(a.n * b.d, a.d * b.n)

\* Math.max(a, b)
MathMax(x, y) ==
  LET a == ToNumber(x)
      b == ToNumber(y)
  IN  IF a.k = "nan" \/ b.k = "nan" THEN NaN ELSE IF Lt(a, b) THEN b ELSE a

\* Math.min(a, b)
MathMin(x, y) ==
  LET a == ToNumber(x)
      b == ToNumber(y)
  IN  IF a.k = "nan" \/ b.k = "nan" THEN NaN ELSE IF Lt(b, a) THEN b ELSE a

\* Math.floor(a), for a finite number
Floor(a) == Whole(a.n \div a.d)

\* A variant of Nullish that also replaces 0, "" and NaN (x || y).
NullishOrFalsy(x, y) ==
  IF x.k \in {"undefined", "null", "nan"} \/ (x.k \in {"num", "str"} /\ x.n = 0)
  THEN y ELSE x

\* x ?? y
Nullish(x, y) == IF x.k \in {"undefined", "null"} THEN y ELSE x

\* Whether a value counts as true in a condition, || or a ternary test.
Truthy(x) ==
  CASE x.k = "num" -> x.n # 0
    [] x.k = "inf" -> TRUE
    [] x.k = "str" -> x.n # 0
    [] OTHER -> FALSE

\* x || y
Or(x, y) == IF Truthy(x) THEN x ELSE y

\* r.f, undefined when the object has no such property
Get(r, f) == IF f \in DOMAIN r THEN r[f] ELSE Undefined

\* { ...r, ...extra }
Spread(r, extra) ==
  [f \in DOMAIN r \cup DOMAIN extra |-> IF f \in DOMAIN extra THEN extra[f] ELSE r[f]]

\* new Date() at clock t, and its ISO string
Date(t) == [k |-> "date", t |-> t]
Iso(t) == [k |-> "iso", t |-> t]

-----------------------------------------------------------------------------
(* Scoring *)

\* A variant of clamp with no upper limit.
clampFromBelow(value, min, max) == MathMax(min, value)

\* clamp(value, min, max)
clamp(value, min, max) == MathMin(max, MathMax(min, value))

\* A variant of computeDeviationScore that counts an accuracy above the
\* baseline as a deviation too (the difference two-sided, not Math.max(0, ...)).
computeDeviationScoreTwoSided(b, accuracy, avgReactionMs) ==
  LET diff == Sub(b.accuracy, accuracy)
      accDiff == MathMax(diff, Sub(Whole(0), diff))
      rtDiffRatio ==
        MathMax(Whole(0),
                Div(Sub(avgReactionMs, b.meanReactionMs),
                    MathMax(b.meanReactionMs, Whole(1))))
      raw == Mul(Add(Mul(accDiff, Num(14, 10)), Mul(rtDiffRatio, Num(6, 10))),
                 Whole(100))
  IN  MathMin(Whole(100), MathMax(Whole(0), raw))

\* Variant A (src/app.js): b is the baseline the function reads.
computeDeviationScore(b, accuracy, avgReactionMs) ==
  LET accDiff == MathMax(Whole(0), Sub(b.accuracy, accuracy))
      rtDiffRatio ==
        MathMax(Whole(0),
                Div(Sub(avgReactionMs, b.meanReactionMs),
                    MathMax(b.meanReactionMs, Whole(1))))
      raw == Mul(Add(Mul(accDiff, Num(14, 10)), Mul(rtDiffRatio, Num(6, 10))),
                 Whole(100))
  IN  clamp(raw, Whole(0), Whole(100))

\* A variant of computeDeviationScoreFromScore that measures the score from
\* the worst score up, so that a higher score deviates more.
computeDeviationScoreFromScoreUpwards(score) ==
  LET baselineScore == Num(95, 10)
      worstScore == Whole(0)
      diff == MathMax(Whole(0), Sub(score, worstScore))
      maxDiff == MathMax(Sub(baselineScore, worstScore), Whole(1))
  IN  IF ~IsNumber(score) \/ ~IsFinite(score)
      THEN Whole(0)
      ELSE MathMin(Whole(100), MathMax(Whole(0), Mul(Div(diff, maxDiff), Whole(100))))

\* Variant B (src/unnamed/part_000)
computeDeviationScoreFromScore(score) ==
  LET baselineScore == Num(95, 10)
      worstScore == Whole(0)
      diff == MathMax(Whole(0), Sub(baselineScore, score))
      maxDiff == MathMax(Sub(baselineScore, worstScore), Whole(1))
  IN  IF ~IsNumber(score) \/ ~IsFinite(score)
      THEN Whole(0)
      ELSE clamp(Mul(Div(diff, maxDiff), Whole(100)), Whole(0), Whole(100))

\* A variant of classifyRisk whose first band includes 25.
classifyRiskInclusive(score) ==
  IF Le(score, Whole(25)) THEN "low"
  ELSE IF Lt(score, Whole(60)) THEN "medium"
  ELSE "high"

\* function classifyRisk(score)
classifyRisk(score) ==
  IF Lt(score, Whole(25)) THEN "low"
  ELSE IF Lt(score, Whole(60)) THEN "medium"
  ELSE "high"

-----------------------------------------------------------------------------
(* Bounds and inputs *)

\* The number of records a store ingests.
MaxSessions == 2
\* The number of results the browser script of part_000 ingests.
MaxLocal == 1
\* The number of GET /api/results exchanges in flight at once.
MaxPolls == 2

\* The repository's programs; one of them runs.
Programs == {"app.js browser", "app.js server", "part_000 server", "part_000"}

\* Number(field.value) of the result form's fields: sequenceLength,
\* roundsPlayed, roundsCorrect, avgReaction.
FormSubmissions ==
  { <<Whole(4), Whole(10), Whole(9), Whole(3000)>>,
    <<Whole(4), Whole(10), Whole(12), Whole(3000)>>,
    <<Whole(4), Whole(0), Whole(0), Whole(1500)>>,
    <<Whole(4), Whole(10), Whole(9), NaN>> }
\* patientData.get("patientId")
FormPatientIds == {EmptyStr}

\* Number(field.value) of the baseline form's two fields: the fields are
\* numeric inputs, so a value is a finite number, or NaN for text.
BaselineSubmissions ==
  { <<Num(1, 2), Whole(1000)>>, <<Whole(1), Num(1, 2)>>,
    <<Whole(0), NaN>>, <<Num(3, 2), Whole(0)>>, <<NaN, Whole(1000)>> }

\* Values of the four Math.random() calls of a demo click, each in [0, 1).
DemoDraws ==
  { <<Whole(0), Whole(0), Whole(0), Whole(0)>>,
    <<Num(99, 100), Num(99, 100), Num(99, 100), Num(99, 100)>> }

\* The objects a device hands to ingestResultFromDevice.
DeviceData ==
  { [roundsPlayed |-> Whole(10), roundsCorrect |-> Whole(12),
     avgReactionMs |-> Whole(3000), patientId |-> PatientP1],
    [roundsPlayed |-> Whole(10), roundsCorrect |-> Str],
    [sequenceLength |-> Whole(4)] }

\* JSON bodies of POST /score.  A JSON number too large for a double, such as
\* 1e999, parses to Infinity.
ScoreBodies ==
  { [score |-> Whole(3)],
    [score |-> Whole(9), roundsPlayed |-> Whole(10), roundsCorrect |-> Whole(9),
     avgReactionMs |-> Whole(1500), patientId |-> PatientP1],
    [score |-> Whole(12), roundsPlayed |-> Whole(0)],
    [score |-> PosInf],
    [score |-> Whole(-2), roundsCorrect |-> Null, avgReactionMs |-> Whole(1500)],
    [score |-> Str],
    [roundsPlayed |-> Whole(10)] }

\* JSON bodies of POST /api/results sent by other clients than the browser script.
ResultsBodies ==
  { [roundsPlayed |-> Whole(10), roundsCorrect |-> Whole(9), avgReactionMs |-> Whole(2000)],
    [roundsPlayed |-> Whole(10), roundsCorrect |-> Whole(12), avgReactionMs |-> Whole(3000),
     sequenceLength |-> Whole(4), patient |-> [id |-> PatientP1], score |-> Whole(3)],
    [roundsPlayed |-> Whole(10), roundsCorrect |-> Whole(10), avgReactionMs |-> PosInf,
     score |-> Null],
    [roundsPlayed |-> Str, roundsCorrect |-> Whole(9), avgReactionMs |-> Whole(2000)],
    [roundsPlayed |-> Whole(10), roundsCorrect |-> Whole(9)] }

\* The inputs of part_000, where the browser script and the server run together.
FormSubmissionsB ==
  { <<Whole(4), Whole(10), Whole(9), Whole(3000)>>,
    <<Whole(4), Whole(10), Whole(12), Whole(3000)>> }
BaselineSubmissionsB == { <<Num(1, 2), Whole(1000)>>, <<Whole(0), NaN>> }
DemoDrawsB == { <<Whole(0), Whole(0), Whole(0), Whole(0)>> }
ScoreBodiesB == { [score |-> PosInf] }

-----------------------------------------------------------------------------
(* src/app.js, the browser script *)

DefaultBaseline == [accuracy |-> Num(9, 10), meanReactionMs |-> Whole(1800)]

\* A variant of Unshift that adds the record at the end (array.push).
Push(list, record) == Append(list, record)

\* sessions.unshift(record)
Unshift(list, record) == <<record>> \o list

\* function ingestResult(result)
ingestResultA(result) ==
  LET roundsPlayed == result.roundsPlayed
      roundsCorrect == result.roundsCorrect
      avgReactionMs == result.avgReactionMs
      accuracy == IF Gt(roundsPlayed, Whole(0))
                  THEN Div(roundsCorrect, roundsPlayed)
                  ELSE Whole(0)
      deviationScore == computeDeviationScore(baseline, accuracy, avgReactionMs)
      riskLevel == classifyRisk(deviationScore)
      record == Spread(result, [accuracy |-> accuracy,
                                deviationScore |-> deviationScore,
                                riskLevel |-> riskLevel,
                                timestamp |-> Date(now)])
  IN  /\ Len(ingested) < MaxSessions
      /\ sessions' = Unshift(sessions, record)
      /\ ingested' = Append(ingested, record)
      /\ now' = now + 1

\* resultForm.addEventListener("submit", ...), with the Number() of each field
ResultFormA(sequenceLength, roundsPlayed, roundsCorrect, avgReactionMs, patientId) ==
  /\ program = "app.js browser"
  /\ IF \/ ~IsFinite(sequenceLength) \/ ~IsFinite(roundsPlayed)
        \/ ~IsFinite(roundsCorrect) \/ ~IsFinite(avgReactionMs)
     THEN UNCHANGED <<sessions, ingested, now>>
     ELSE IF Gt(roundsCorrect, roundsPlayed)
     THEN UNCHANGED <<sessions, ingested, now>>
     ELSE ingestResultA([sequenceLength |-> sequenceLength,
                         roundsPlayed |-> roundsPlayed,
                         roundsCorrect |-> roundsCorrect,
                         avgReactionMs |-> avgReactionMs,
                         patient |-> [id |-> Or(patientId, EmptyStr)]])
  /\ UNCHANGED <<calc, program, baseline, srvSessions, srvNow, resp, outbox, polls, inbox, srvIngested>>

ResultFormSubmitA ==
  \E f \in FormSubmissions, patientId \in FormPatientIds :
    ResultFormA(f[1], f[2], f[3], f[4], patientId)

\* The baseline the submit handler leaves in force.
SubmittedBaseline(b, accVal, rtVal) ==
  [accuracy |-> IF ~IsNaN(accVal) /\ Gt(accVal, Whole(0)) /\ Le(accVal, Whole(1))
                THEN accVal ELSE b.accuracy,
   meanReactionMs |-> IF ~IsNaN(rtVal) /\ Gt(rtVal, Whole(0))
                      THEN rtVal ELSE b.meanReactionMs]

\* A variant of RescoredA that leaves the derived fields of the latest record.
NotRescoredA(latest, b) == latest

\* The latest record as the baseline handler rescores it.
RescoredA(latest, b) ==
  LET deviationScore == computeDeviationScore(b, latest.accuracy, latest.avgReactionMs)
  IN  [latest EXCEPT !.deviationScore = deviationScore,
                     !.riskLevel = classifyRisk(deviationScore)]

\* baselineForm.addEventListener("submit", ...), with the Number() of each field
BaselineFormA(accVal, rtVal) ==
  /\ program = "app.js browser"
  /\ baseline' = SubmittedBaseline(baseline, accVal, rtVal)
  /\ sessions' = IF sessions # <<>>
                 THEN <<RescoredA(Head(sessions), baseline')>> \o Tail(sessions)
                 ELSE sessions
  /\ UNCHANGED <<calc, program, srvSessions, now, srvNow, resp, outbox, polls, inbox, ingested,
                 srvIngested>>

BaselineFormSubmitA ==
  \E submission \in BaselineSubmissions : BaselineFormA(submission[1], submission[2])

\* const rnd = (min, max) => Math.random() * (max - min) + min, for the draw r
rnd(r, min, max) == Add(Mul(r, Sub(max, min)), min)

\* demoBtn.addEventListener("click", ...)
DemoClickA ==
  /\ program = "app.js browser"
  /\ \E r \in DemoDraws, patientId \in FormPatientIds :
       LET roundsPlayed == Floor(rnd(r[1], Whole(8), Whole(15)))
           roundsCorrect == Floor(Mul(roundsPlayed, rnd(r[2], Num(6, 10), Whole(1))))
           avgReactionMs == rnd(r[3], Whole(1500), Whole(3500))
           sequenceLength == Floor(rnd(r[4], Whole(4), Whole(8)))
       IN  ingestResultA([sequenceLength |-> sequenceLength,
                          roundsPlayed |-> roundsPlayed,
                          roundsCorrect |-> roundsCorrect,
                          avgReactionMs |-> avgReactionMs,
                          patient |-> [id |-> Or(patientId, Demo01)]])
  /\ UNCHANGED <<calc, program, baseline, srvSessions, srvNow, resp, outbox, polls, inbox, srvIngested>>

\* function ingestResultFromDevice(dataFromDevice)
ingestResultFromDevice ==
  /\ program = "app.js browser"
  /\ \E dataFromDevice \in DeviceData :
       ingestResultA(
         [sequenceLength |-> Nullish(Get(dataFromDevice, "sequenceLength"), Whole(0)),
          roundsPlayed |-> Nullish(Get(dataFromDevice, "roundsPlayed"), Whole(0)),
          roundsCorrect |-> Nullish(Get(dataFromDevice, "roundsCorrect"), Whole(0)),
          avgReactionMs |-> Nullish(Get(dataFromDevice, "avgReactionMs"), Whole(0)),
          patient |-> [id |-> Or(Get(dataFromDevice, "patientId"), EmptyStr)]])
  /\ UNCHANGED <<calc, program, baseline, srvSessions, srvNow, resp, outbox, polls, inbox, srvIngested>>

-----------------------------------------------------------------------------
(* JSON *)

\* What JSON.stringify then JSON.parse make of a value: Infinity and NaN
\* become null.
JsonValue(v) == IF v.k \in {"inf", "nan"} THEN Null ELSE v

\* The properties that hold a string, a Date or an object, never undefined.
ObjectProperties == {"id", "storedId", "source", "riskLevel", "timestamp", "patient"}

\* What they make of one property of a record; a Date becomes its ISO string.
JsonProperty(f, v) ==
  CASE f \in {"id", "storedId", "source", "riskLevel"} -> v
    [] f = "timestamp" -> Iso(v.t)
    [] f = "patient" -> [g \in {h \in DOMAIN v : v[h] # Undefined} |-> JsonValue(v[g])]
    [] OTHER -> JsonValue(v)

\* What they make of a record: properties that are undefined are left out.
JsonRecord(r) ==
  [f \in {g \in DOMAIN r : g \in ObjectProperties \/ r[g] # Undefined}
     |-> JsonProperty(f, r[f])]

JsonSessions(list) == [i \in 1..Len(list) |-> JsonRecord(list[i])]

-----------------------------------------------------------------------------
(* src/app.js, the server *)

\* const baseline = { accuracy: 0.9, meanReactionMs: 1800 }
ServerBaseline == [accuracy |-> Num(9, 10), meanReactionMs |-> Whole(1800)]

\* A variant of ServerStore that answers without keeping the record.
ServerStoreNothing(record) ==
  /\ Len(srvIngested) < MaxSessions
  /\ UNCHANGED srvSessions
  /\ srvIngested' = Append(srvIngested, record)
  /\ srvNow' = srvNow + 1

\* sessions.unshift(record) on the server
ServerStore(record) ==
  /\ Len(srvIngested) < MaxSessions
  /\ srvSessions' = Unshift(srvSessions, record)
  /\ srvIngested' = Append(srvIngested, record)
  /\ srvNow' = srvNow + 1

\* The record POST /score builds, given its deviation score.
ScoreRecord(body, deviationScore, computedRoundsPlayed, computedRoundsCorrect, computedAvgReaction, accuracy) ==
  [id |-> <<"esp", srvNow>>,
   source |-> "esp",
   patient |-> [id |-> Or(Get(body, "patientId"), EmptyStr)],
   score |-> body.score,
   sequenceLength |-> Null,
   roundsPlayed |-> computedRoundsPlayed,
   roundsCorrect |-> computedRoundsCorrect,
   avgReactionMs |-> computedAvgReaction,
   accuracy |-> accuracy,
   deviationScore |-> deviationScore,
   riskLevel |-> classifyRisk(deviationScore),
   timestamp |-> Iso(srvNow)]

\* app.post("/score", ...)
PostScoreA(body) ==
  /\ program = "app.js server"
  /\ IF ~IsNumber(Get(body, "score"))
     THEN /\ resp' = [op |-> "POST /score", req |-> body, status |-> 400, body |-> <<>>]
          /\ UNCHANGED <<srvSessions, srvIngested, srvNow>>
     ELSE LET computedRoundsPlayed == Nullish(Get(body, "roundsPlayed"), Whole(10))
              computedRoundsCorrect ==
                Nullish(Get(body, "roundsCorrect"),
                        MathMax(Whole(0), MathMin(body.score, computedRoundsPlayed)))
              computedAvgReaction == Nullish(Get(body, "avgReactionMs"), Whole(2000))
              accuracy == IF Gt(computedRoundsPlayed, Whole(0))
                          THEN Div(computedRoundsCorrect, computedRoundsPlayed)
                          ELSE Whole(0)
              deviationScore ==
                computeDeviationScore(ServerBaseline, accuracy, computedAvgReaction)
              record == ScoreRecord(body, deviationScore, computedRoundsPlayed,
                                    computedRoundsCorrect, computedAvgReaction, accuracy)
          IN  /\ ServerStore(record)
              /\ resp' = [op |-> "POST /score", req |-> body, status |-> 200,
                          body |-> JsonRecord([storedId |-> record.id,
                                               deviationScore |-> deviationScore,
                                               riskLevel |-> record.riskLevel])]
  /\ UNCHANGED <<calc, program, baseline, sessions, now, outbox, polls, inbox, ingested>>

\* app.post("/api/results", ...)
PostApiResultsA(body) ==
  /\ program = "app.js server"
  /\ LET roundsPlayed == Get(body, "roundsPlayed")
         roundsCorrect == Get(body, "roundsCorrect")
         avgReactionMs == Get(body, "avgReactionMs")
     IN  IF ~IsNumber(roundsPlayed) \/ ~IsNumber(roundsCorrect) \/ ~IsNumber(avgReactionMs)
         THEN /\ resp' = [op |-> "POST /api/results", req |-> body, status |-> 400,
                       body |-> <<>>]
              /\ UNCHANGED <<srvSessions, srvIngested, srvNow>>
         ELSE LET accuracy == IF Gt(roundsPlayed, Whole(0))
                              THEN Div(roundsCorrect, roundsPlayed)
                              ELSE Whole(0)
                  deviationScore ==
                    computeDeviationScore(ServerBaseline, accuracy, avgReactionMs)
                  record ==
                    [id |-> <<"web", srvNow>>,
                     source |-> "web",
                     patient |-> IF "patient" \in DOMAIN body THEN body.patient
                                 ELSE <<>>,
                     sequenceLength |-> Nullish(Get(body, "sequenceLength"), Null),
                     roundsPlayed |-> roundsPlayed,
                     roundsCorrect |-> roundsCorrect,
                     avgReactionMs |-> avgReactionMs,
                     accuracy |-> accuracy,
                     deviationScore |-> deviationScore,
                     riskLevel |-> classifyRisk(deviationScore),
                     timestamp |-> Iso(srvNow)]
              IN  /\ ServerStore(record)
                  /\ resp' = [op |-> "POST /api/results", req |-> body, status |-> 200,
                              body |-> JsonRecord(record)]
  /\ UNCHANGED <<calc, program, baseline, sessions, now, outbox, polls, inbox, ingested>>

\* app.get("/api/results", ...)
GetApiResultsA ==
  /\ program = "app.js server"
  /\ resp' = [op |-> "GET /api/results", req |-> <<>>, status |-> 200,
              body |-> JsonSessions(srvSessions)]
  /\ UNCHANGED <<calc, program, baseline, sessions, srvSessions, now, srvNow, outbox, polls, inbox,
                 ingested, srvIngested>>

ScoreRequestA == \E body \in ScoreBodies : PostScoreA(body)
ResultsRequestA == \E body \in ResultsBodies : PostApiResultsA(body)

-----------------------------------------------------------------------------
(* src/unnamed/part_000, the browser script *)

\* The sequence without its i-th element.
Without(seq, i) == SubSeq(seq, 1, i - 1) \o SubSeq(seq, i + 1, Len(seq))

\* async function sendResultToServer(record): the fetch it starts.  What comes
\* back is only logged.
sendResultToServer(record) == outbox' = Append(outbox, JsonRecord(record))

\* A variant of ScoreOrRoundsCorrect that falls back to 0.
ScoreOrZero(score, roundsCorrect) == IF IsNumber(score) THEN score ELSE Whole(0)

\* typeof result.score === "number" ? result.score : roundsCorrect
ScoreOrRoundsCorrect(score, roundsCorrect) ==
  IF IsNumber(score) THEN score ELSE roundsCorrect

\* function ingestResult(result)
ingestResultB(result) ==
  LET roundsPlayed == result.roundsPlayed
      roundsCorrect == result.roundsCorrect
      avgReactionMs == result.avgReactionMs
      score == ScoreOrRoundsCorrect(Get(result, "score"), roundsCorrect)
      accuracy == IF Gt(roundsPlayed, Whole(0))
                  THEN Div(roundsCorrect, roundsPlayed)
                  ELSE Whole(0)
      deviationScore == computeDeviationScoreFromScore(score)
      riskLevel == classifyRisk(deviationScore)
      record == Spread(result, [score |-> score,
                                accuracy |-> accuracy,
                                deviationScore |-> deviationScore,
                                riskLevel |-> riskLevel,
                                timestamp |-> Date(now)])
  IN  /\ Len(ingested) < MaxLocal
      /\ sessions' = Unshift(sessions, record)
      /\ ingested' = Append(ingested, record)
      /\ now' = now + 1
      /\ sendResultToServer(record)

\* resultForm.addEventListener("submit", ...), with the Number() of each field
ResultFormB(sequenceLength, roundsPlayed, roundsCorrect, avgReactionMs, patientId) ==
  /\ program = "part_000"
  /\ IF \/ ~IsFinite(sequenceLength) \/ ~IsFinite(roundsPlayed)
        \/ ~IsFinite(roundsCorrect) \/ ~IsFinite(avgReactionMs)
     THEN UNCHANGED <<sessions, ingested, now, outbox>>
     ELSE IF Gt(roundsCorrect, roundsPlayed)
     THEN UNCHANGED <<sessions, ingested, now, outbox>>
     ELSE ingestResultB([sequenceLength |-> sequenceLength,
                         roundsPlayed |-> roundsPlayed,
                         roundsCorrect |-> roundsCorrect,
                         avgReactionMs |-> avgReactionMs,
                         patient |-> [id |-> Or(patientId, EmptyStr)]])
  /\ UNCHANGED <<calc, program, baseline, srvSessions, srvNow, resp, polls, inbox, srvIngested>>

ResultFormSubmitB ==
  \E f \in FormSubmissionsB, patientId \in FormPatientIds :
    ResultFormB(f[1], f[2], f[3], f[4], patientId)

\* The latest record as the baseline handler rescores it.
RescoredB(latest) ==
  LET score == IF IsNumber(Get(latest, "score")) THEN latest.score ELSE Whole(0)
      deviationScore == computeDeviationScoreFromScore(score)
  IN  [latest EXCEPT !.deviationScore = deviationScore,
                     !.riskLevel = classifyRisk(deviationScore)]

\* baselineForm.addEventListener("submit", ...), with the Number() of each field
BaselineFormB(accVal, rtVal) ==
  /\ program = "part_000"
  /\ baseline' = SubmittedBaseline(baseline, accVal, rtVal)
  /\ sessions' = IF sessions # <<>>
                 THEN <<RescoredB(Head(sessions))>> \o Tail(sessions)
                 ELSE sessions
  /\ UNCHANGED <<calc, program, srvSessions, now, srvNow, resp, outbox, polls, inbox, ingested,
                 srvIngested>>

BaselineFormSubmitB ==
  \E submission \in BaselineSubmissionsB : BaselineFormB(submission[1], submission[2])

\* demoBtn.addEventListener("click", ...)
DemoClickB ==
  /\ program = "part_000"
  /\ \E r \in DemoDrawsB, patientId \in FormPatientIds :
       LET roundsPlayed == Floor(rnd(r[1], Whole(8), Whole(15)))
           roundsCorrect == Floor(Mul(roundsPlayed, rnd(r[2], Num(6, 10), Whole(1))))
           avgReactionMs == rnd(r[3], Whole(1500), Whole(3500))
           sequenceLength == Floor(rnd(r[4], Whole(4), Whole(8)))
       IN  ingestResultB([sequenceLength |-> sequenceLength,
                          roundsPlayed |-> roundsPlayed,
                          roundsCorrect |-> roundsCorrect,
                          avgReactionMs |-> avgReactionMs,
                          patient |-> [id |-> Or(patientId, Demo01)],
                          score |-> roundsCorrect])
  /\ UNCHANGED <<calc, program, baseline, srvSessions, srvNow, resp, polls, inbox, srvIngested>>

\* loadInitialSessions(), at load and from setInterval: the fetch it starts
LoadStart ==
  /\ program = "part_000"
  /\ polls + Len(inbox) < MaxPolls
  /\ polls' = polls + 1
  /\ UNCHANGED <<calc, program, baseline, sessions, srvSessions, now, srvNow, resp, outbox, inbox,
                 ingested, srvIngested>>

\* A variant of LoadedSessions that lists the records oldest first.
LoadedOldestFirst(data) ==
  [i \in 1..Len(data) |->
     Spread(data[Len(data) + 1 - i],
            [timestamp |-> Date(data[Len(data) + 1 - i].timestamp.t)])]

\* The list loadInitialSessions makes of a response's data.sessions.
LoadedSessions(data) ==
  [i \in 1..Len(data) |-> Spread(data[i], [timestamp |-> Date(data[i].timestamp.t)])]

\* loadInitialSessions(), once its response has come
LoadDeliver ==
  /\ program = "part_000"
  /\ \E i \in 1..Len(inbox) :
       /\ sessions' = LoadedSessions(inbox[i])
       /\ inbox' = Without(inbox, i)
  /\ UNCHANGED <<calc, program, baseline, srvSessions, now, srvNow, resp, outbox, polls, ingested,
                 srvIngested>>

\* loadInitialSessions(), when the fetch throws or the response is not OK
LoadFail ==
  /\ program = "part_000"
  /\ \/ /\ polls > 0
        /\ polls' = polls - 1
        /\ UNCHANGED inbox
     \/ /\ \E i \in 1..Len(inbox) : inbox' = Without(inbox, i)
        /\ UNCHANGED polls
  /\ UNCHANGED <<calc, program, baseline, sessions, srvSessions, now, srvNow, resp, outbox, ingested,
                 srvIngested>>

\* A variant of SyncFail that takes the record that was not synced off the list.
SyncFailUndoesIngest ==
  /\ program = "part_000"
  /\ \E i \in 1..Len(outbox) : outbox' = Without(outbox, i)
  /\ sessions' = IF sessions # <<>> THEN Tail(sessions) ELSE sessions
  /\ UNCHANGED <<calc, program, baseline, srvSessions, now, srvNow, resp, polls, inbox,
                 ingested, srvIngested>>

\* sendResultToServer, when the fetch throws or the response is not OK: the
\* server stored nothing and the handler only logs
SyncFail ==
  /\ program = "part_000"
  /\ \E i \in 1..Len(outbox) : outbox' = Without(outbox, i)
  /\ UNCHANGED <<calc, program, baseline, sessions, srvSessions, now, srvNow, resp, polls, inbox,
                 ingested, srvIngested>>

-----------------------------------------------------------------------------
(* src/unnamed/part_000, the server *)

\* app.post("/score", ...)
PostScoreB(body) ==
  /\ program \in {"part_000 server", "part_000"}
  /\ IF ~IsNumber(Get(body, "score"))
     THEN /\ resp' = [op |-> "POST /score", req |-> body, status |-> 400, body |-> <<>>]
          /\ UNCHANGED <<srvSessions, srvIngested, srvNow>>
     ELSE LET computedRoundsPlayed == Nullish(Get(body, "roundsPlayed"), Whole(10))
              computedRoundsCorrect ==
                Nullish(Get(body, "roundsCorrect"),
                        MathMax(Whole(0), MathMin(body.score, computedRoundsPlayed)))
              computedAvgReaction == Nullish(Get(body, "avgReactionMs"), Whole(2000))
              accuracy == IF Gt(computedRoundsPlayed, Whole(0))
                          THEN Div(computedRoundsCorrect, computedRoundsPlayed)
                          ELSE Whole(0)
              deviationScore == computeDeviationScoreFromScore(body.score)
              record == ScoreRecord(body, deviationScore, computedRoundsPlayed,
                                    computedRoundsCorrect, computedAvgReaction, accuracy)
          IN  /\ ServerStore(record)
              /\ resp' = [op |-> "POST /score", req |-> body, status |-> 200,
                          body |-> JsonRecord([storedId |-> record.id,
                                               deviationScore |-> deviationScore,
                                               riskLevel |-> record.riskLevel])]
  /\ UNCHANGED <<calc, program, baseline, sessions, now, outbox, polls, inbox, ingested>>

\* app.post("/api/results", ...)
PostApiResultsB(body) ==
  /\ program \in {"part_000 server", "part_000"}
  /\ LET roundsPlayed == Get(body, "roundsPlayed")
         roundsCorrect == Get(body, "roundsCorrect")
         avgReactionMs == Get(body, "avgReactionMs")
         incomingScore == Get(body, "score")
     IN  IF ~IsNumber(roundsPlayed) \/ ~IsNumber(roundsCorrect) \/ ~IsNumber(avgReactionMs)
         THEN /\ resp' = [op |-> "POST /api/results", req |-> body, status |-> 400,
                       body |-> <<>>]
              /\ UNCHANGED <<srvSessions, srvIngested, srvNow>>
         ELSE LET accuracy == IF Gt(roundsPlayed, Whole(0))
                              THEN Div(roundsCorrect, roundsPlayed)
                              ELSE Whole(0)
                  score == ScoreOrRoundsCorrect(incomingScore, roundsCorrect)
                  deviationScore == computeDeviationScoreFromScore(score)
                  record ==
                    [id |-> <<"web", srvNow>>,
                     source |-> "web",
                     patient |-> IF "patient" \in DOMAIN body THEN body.patient
                                 ELSE <<>>,
                     sequenceLength |-> Nullish(Get(body, "sequenceLength"), Null),
                     roundsPlayed |-> roundsPlayed,
                     roundsCorrect |-> roundsCorrect,
                     avgReactionMs |-> avgReactionMs,
                     score |-> score,
                     accuracy |-> accuracy,
                     deviationScore |-> deviationScore,
                     riskLevel |-> classifyRisk(deviationScore),
                     timestamp |-> Iso(srvNow)]
              IN  /\ ServerStore(record)
                  /\ resp' = [op |-> "POST /api/results", req |-> body, status |-> 200,
                              body |-> JsonRecord(record)]
  /\ UNCHANGED <<calc, program, baseline, sessions, now, polls, inbox, ingested>>

\* app.get("/api/results", ...), answering a fetch of the browser script: the
\* response travels in inbox
GetApiResultsB ==
  /\ program = "part_000"
  /\ polls > 0
  /\ polls' = polls - 1
  /\ inbox' = Append(inbox, JsonSessions(srvSessions))
  /\ UNCHANGED <<calc, program, baseline, sessions, srvSessions, now, srvNow, resp, outbox, ingested,
                 srvIngested>>

\* app.get("/api/results", ...), answering another client
GetApiResultsServerB ==
  /\ program = "part_000 server"
  /\ resp' = [op |-> "GET /api/results", req |-> <<>>, status |-> 200,
              body |-> JsonSessions(srvSessions)]
  /\ UNCHANGED <<calc, program, baseline, sessions, srvSessions, now, srvNow, outbox, polls, inbox,
                 ingested, srvIngested>>

\* POST /score from a device
ScoreRequestB ==
  \E body \in IF program = "part_000" THEN ScoreBodiesB ELSE ScoreBodies :
    PostScoreB(body)

\* POST /api/results from another client than the browser script
ResultsRequestB ==
  /\ program = "part_000 server"
  /\ \E body \in ResultsBodies : PostApiResultsB(body) /\ UNCHANGED outbox

\* POST /api/results from sendResultToServer
SyncDeliver ==
  \E i \in 1..Len(outbox) : PostApiResultsB(outbox[i]) /\ outbox' = Without(outbox, i)

-----------------------------------------------------------------------------
(* The scoring functions, called on their own *)

\* The interval [0, 100] of deviations is cut in this many steps.
DevSteps == 100
\* Scores run from -2 to MaxScore, in halves.
MaxScore == 11

\* Deviations in [0, 100], with the thresholds and the values just under them.
Deviations ==
  {Num(100 * i, DevSteps) : i \in 0..DevSteps}
    \cup {Whole(25), Whole(60), Num(24999, 1000), Num(59999, 1000)}

\* Finite scores.
Scores == {Num(i, 2) : i \in (-4)..(2 * MaxScore)}

\* Accuracies in [0, 1] and reaction times >= 0.
Accuracies == {Num(i, 5) : i \in 0..5}
ReactionTimes == {Whole(0), Num(1, 2), Whole(1000), Whole(1800), Whole(3000), Whole(100000)}

\* The baselines the baseline form can leave in force: each field is the
\* default or a value the handler accepts.
FormAccuracies == {Num(1, 10), Num(1, 2), Whole(1), Whole(0), Num(3, 2), NaN}
FormReactions == {Num(1, 2), Whole(1), Whole(1000), Whole(3000), Whole(0), Whole(-5), NaN}
FormBaselines ==
  {SubmittedBaseline(DefaultBaseline, a, r) : a \in FormAccuracies, r \in FormReactions}

\* The calls to make: a function and its inputs, with no result yet.
Calls ==
  [fn : {"classifyRisk"}, x : Deviations \X Deviations, y : {<<>>}]
    \cup [fn : {"computeDeviationScoreFromScore"}, x : Scores \X Scores, y : {<<>>}]
    \cup [fn : {"computeDeviationScore"},
          x : FormBaselines \X Accuracies \X ReactionTimes, y : {<<>>}]

\* classifyRisk, on two deviations.
CallClassifyRisk ==
  /\ calc.fn = "classifyRisk"
  /\ calc.y = <<>>
  /\ calc' = [calc EXCEPT !.y = <<classifyRisk(calc.x[1]), classifyRisk(calc.x[2])>>]
  /\ UNCHANGED <<program, baseline, sessions, srvSessions, now, srvNow, resp, outbox,
                 polls, inbox, ingested, srvIngested>>

\* computeDeviationScoreFromScore and classifyRisk on its result, as ingestion
\* composes them, on two scores.
CallComputeDeviationScoreFromScore ==
  /\ calc.fn = "computeDeviationScoreFromScore"
  /\ calc.y = <<>>
  /\ LET d1 == computeDeviationScoreFromScore(calc.x[1])
         d2 == computeDeviationScoreFromScore(calc.x[2])
     IN  calc' = [calc EXCEPT !.y = <<d1, d2, classifyRisk(d1), classifyRisk(d2)>>]
  /\ UNCHANGED <<program, baseline, sessions, srvSessions, now, srvNow, resp, outbox,
                 polls, inbox, ingested, srvIngested>>

\* computeDeviationScore, on a baseline, an accuracy and a reaction time.
CallComputeDeviationScore ==
  /\ calc.fn = "computeDeviationScore"
  /\ calc.y = <<>>
  /\ calc' = [calc EXCEPT !.y = <<computeDeviationScore(calc.x[1], calc.x[2], calc.x[3])>>]
  /\ UNCHANGED <<program, baseline, sessions, srvSessions, now, srvNow, resp, outbox,
                 polls, inbox, ingested, srvIngested>>

-----------------------------------------------------------------------------
(* Specifications *)

NoCall == [fn |-> "none", x |-> <<>>, y |-> <<>>]

InitOf(programs, calls) ==
  /\ program \in programs
  /\ baseline = DefaultBaseline
  /\ sessions = <<>>
  /\ srvSessions = <<>>
  /\ now = 1
  /\ srvNow = 1
  /\ resp = [op |-> "none", req |-> <<>>, status |-> 0, body |-> <<>>]
  /\ outbox = <<>>
  \* the script calls loadInitialSessions() as it loads
  /\ polls = IF program = "part_000" THEN 1 ELSE 0
  /\ inbox = <<>>
  /\ ingested = <<>>
  /\ srvIngested = <<>>
  /\ calc \in calls

NextBrowserA ==
  \/ ResultFormSubmitA
  \/ BaselineFormSubmitA
  \/ DemoClickA
  \/ ingestResultFromDevice

NextServerA ==
  \/ ScoreRequestA
  \/ ResultsRequestA
  \/ GetApiResultsA

NextServerB ==
  \/ ScoreRequestB
  \/ ResultsRequestB
  \/ GetApiResultsServerB

NextSync ==
  \/ ResultFormSubmitB
  \/ BaselineFormSubmitB
  \/ DemoClickB
  \/ LoadStart
  \/ LoadDeliver
  \/ LoadFail
  \/ SyncFail
  \/ SyncDeliver
  \/ ScoreRequestB
  \/ GetApiResultsB

NextFn ==
  \/ CallClassifyRisk
  \/ CallComputeDeviationScoreFromScore
  \/ CallComputeDeviationScore

\* Every program of the repository.
Init == InitOf(Programs, {NoCall})
Next == NextBrowserA \/ NextServerA \/ NextServerB \/ NextSync
Spec == Init /\ [][Next]_vars

\* The browser script of src/app.js.
InitBrowserA == InitOf({"app.js browser"}, {NoCall})
SpecBrowserA == InitBrowserA /\ [][NextBrowserA]_vars

\* The two servers, each with clients of its own.
InitServers == InitOf({"app.js server", "part_000 server"}, {NoCall})
NextServers == NextServerA \/ NextServerB
SpecServers == InitServers /\ [][NextServers]_vars

\* The three programs that run on their own.
InitStores == InitOf({"app.js browser", "app.js server", "part_000 server"}, {NoCall})
NextStores == NextBrowserA \/ NextServerA \/ NextServerB
SpecStores == InitStores /\ [][NextStores]_vars

\* The browser script and the server of src/unnamed/part_000, together.
InitSync == InitOf({"part_000"}, {NoCall})
SpecSync == InitSync /\ [][NextSync]_vars

\* The browser script and the server of src/unnamed/part_000, and its server
\* with clients of its own.
InitPart000 == InitOf({"part_000 server", "part_000"}, {NoCall})
NextPart000 == NextSync \/ NextServerB
SpecPart000 == InitPart000 /\ [][NextPart000]_vars

\* The scoring functions.
InitFn == InitOf({"functions"}, Calls)
SpecFn == InitFn /\ [][NextFn]_vars

-----------------------------------------------------------------------------
(* Properties *)

Reverse(list) == [i \in 1..Len(list) |-> list[Len(list) + 1 - i]]

\* A record without its derived fields.
Inputs(r) == [f \in DOMAIN r \ {"deviationScore", "riskLevel"} |-> r[f]]
InputsOf(list) == [i \in 1..Len(list) |-> Inputs(list[i])]

ServerPrograms == {"app.js server", "part_000 server"}

\* C1: a store lists its records newest first: the list is the reverse of the
\* order of ingestion (so the latest record is its head, and it is empty exactly
\* when nothing was ingested), and GET /api/results answers with that list.
C1_NewestFirst ==
  /\ program = "app.js browser" => InputsOf(sessions) = Reverse(InputsOf(ingested))
  /\ program \in ServerPrograms =>
       /\ srvSessions = Reverse(srvIngested)
       /\ resp.op = "GET /api/results" => resp.body = JsonSessions(Reverse(srvIngested))

\* A server answers GET /api/results after it stored two records.
C1_ListOfTwo ==
  /\ program \in ServerPrograms
  /\ resp.op = "GET /api/results"
  /\ Len(srvIngested) = 2
  /\ Len(resp.body) = 2

\* roundsCorrect is a number above roundsPlayed.
Exceeds(r) ==
  LET roundsCorrect == Get(r, "roundsCorrect")
      roundsPlayed == Get(r, "roundsPlayed")
  IN  IsNumber(roundsCorrect) /\ IsNumber(roundsPlayed) /\ Gt(roundsCorrect, roundsPlayed)

\* C2: no path stores a result with roundsCorrect > roundsPlayed: every record
\* of every store has roundsCorrect <= roundsPlayed.
C2_CorrectAtMostPlayed ==
  /\ \A i \in 1..Len(sessions) : ~Exceeds(sessions[i])
  /\ \A i \in 1..Len(srvSessions) : ~Exceeds(srvSessions[i])

\* The answer to a POST is 400 exactly when a required number is missing.
RejectedWhenNotNumeric ==
  /\ resp.op = "POST /score" =>
       (resp.status = 400 <=> ~IsNumber(Get(resp.req, "score")))
  /\ resp.op = "POST /api/results" =>
       (resp.status = 400 <=>
          \E f \in {"roundsPlayed", "roundsCorrect", "avgReactionMs"} :
            ~IsNumber(Get(resp.req, f)))

\* A step of a server: a 400 leaves the store as it was, a 200 to a POST adds
\* one record at the head, a GET leaves the store as it was.
StoredWhenAccepted ==
  program \in ServerPrograms =>
    IF resp'.status = 200 /\ resp'.op \in {"POST /score", "POST /api/results"}
    THEN /\ Len(srvSessions') = Len(srvSessions) + 1
         /\ Tail(srvSessions') = srvSessions
         /\ srvIngested' = Append(srvIngested, Head(srvSessions'))
    ELSE srvSessions' = srvSessions /\ srvIngested' = srvIngested

\* C3: a POST whose required number is not numeric is answered 400 and changes
\* nothing in the store; a POST answered 200 adds exactly one record.
C3_RejectedStoresNothing ==
  [](program \in ServerPrograms => RejectedWhenNotNumeric)
    /\ [][StoredWhenAccepted]_vars

\* A server that holds a record has just answered 400.
C3_RejectedAfterStored ==
  /\ program \in ServerPrograms
  /\ resp.status = 400
  /\ Len(srvSessions) = 1

\* Two records of the same result: the browser's copy and the server's differ
\* in id, source and timestamp only.
SameResult(a, b) ==
  \A f \in {"sequenceLength", "roundsPlayed", "roundsCorrect", "avgReactionMs", "score"} :
    JsonValue(Get(a, f)) = JsonValue(Get(b, f))

\* Every record of the list old is in the list new, in the same relative order.
RECURSIVE Kept(_, _)
Kept(old, new) ==
  IF old = <<>> THEN TRUE
  ELSE IF new = <<>> THEN FALSE
  ELSE IF SameResult(Head(old), Head(new)) THEN Kept(Tail(old), Tail(new))
  ELSE Kept(old, Tail(new))

\* C4: a store only grows: no step removes or reorders a record of the server's
\* store or of the browser's list, the refresh of part_000 included.
C4_AppendOnly == [][Kept(sessions, sessions') /\ Kept(srvSessions, srvSessions')]_vars

\* The baseline after the form is submitted with these two numbers.
BaselineReplaced(accVal, rtVal) ==
  /\ baseline'.accuracy =
       IF accVal.k = "num" /\ accVal.n > 0 /\ accVal.n <= accVal.d
       THEN accVal ELSE baseline.accuracy
  /\ baseline'.meanReactionMs =
       IF rtVal.k = "num" /\ rtVal.n > 0 THEN rtVal ELSE baseline.meanReactionMs

\* Only the derived fields of the head record change, to their values under
\* the new baseline.
OnlyHeadRescored ==
  /\ Len(sessions') = Len(sessions)
  /\ sessions # <<>> =>
       LET old == Head(sessions)
           new == Head(sessions')
       IN  /\ Tail(sessions') = Tail(sessions)
           /\ Inputs(new) = Inputs(old)
           /\ new.deviationScore =
                computeDeviationScore(baseline', old.accuracy, old.avgReactionMs)
           /\ new.riskLevel = classifyRisk(new.deviationScore)
  /\ UNCHANGED <<program, srvSessions, now, srvNow, resp, outbox, polls, inbox,
                 ingested, srvIngested, calc>>

\* A record that is added is scored with the baseline in force.
ScoredWithBaselineInForce ==
  Len(sessions') = Len(sessions) + 1 =>
    LET new == Head(sessions')
    IN  /\ baseline' = baseline
        /\ new.deviationScore =
             computeDeviationScore(baseline, new.accuracy, new.avgReactionMs)

BaselineSubmitStep ==
  /\ \A submission \in BaselineSubmissions :
       BaselineFormA(submission[1], submission[2]) =>
         BaselineReplaced(submission[1], submission[2]) /\ OnlyHeadRescored
  /\ ScoredWithBaselineInForce

\* C5: submitting the baseline form replaces the baseline and recomputes the
\* derived fields of the head record only; every other record, every other
\* field of the head and, when the list is empty, everything but the baseline
\* stay as they were.  Records ingested afterwards use the new baseline.
C5_BaselineSubmitRescoresHeadOnly == [][BaselineSubmitStep]_vars

\* The head of a list of two was rescored by a baseline submission; the
\* record under it is as it was ingested.
C5_HeadRescored ==
  /\ program = "app.js browser"
  /\ Len(sessions) = 2
  /\ baseline # DefaultBaseline
  /\ Head(sessions).deviationScore # ingested[2].deviationScore
  /\ sessions[2] = ingested[1]

\* The baselines the baseline form can leave in force.
BaselinesInForce ==
  {SubmittedBaseline(SubmittedBaseline(DefaultBaseline, s[1], s[2]), t[1], t[2]) :
     s \in BaselineSubmissions, t \in BaselineSubmissions}

\* The derived fields of a record of Variant A, under baseline b.
ConsistentA(r, b) ==
  /\ r.deviationScore = computeDeviationScore(b, r.accuracy, r.avgReactionMs)
  /\ r.riskLevel = classifyRisk(r.deviationScore)

\* The derived fields of a record of Variant B.
ConsistentB(r) ==
  /\ r.deviationScore = computeDeviationScoreFromScore(Get(r, "score"))
  /\ r.riskLevel = classifyRisk(r.deviationScore)

\* C6: in every store, every record's deviationScore is the scoring formula of
\* its stored score (Variant B) or of its stored accuracy and avgReactionMs
\* under a baseline that was in force (Variant A), and its riskLevel is the
\* classification of its deviationScore.
C6_DerivedFieldsConsistent ==
  /\ \A i \in 1..Len(sessions) :
       IF program = "part_000"
       THEN ConsistentB(sessions[i])
       ELSE \E b \in BaselinesInForce : ConsistentA(sessions[i], b)
  /\ \A i \in 1..Len(srvSessions) :
       IF program = "app.js server"
       THEN ConsistentA(srvSessions[i], ServerBaseline)
       ELSE ConsistentB(srvSessions[i])

\* A number in [0, 100].
InRange(d) == d.k = "num" /\ 0 <= d.n /\ d.n <= 100 * d.d

C9_RiskBands ==
  calc.fn = "classifyRisk" /\ calc.y # <<>> =>
    \A i \in {1, 2} :
      LET d == calc.x[i]
      IN  InRange(d) =>
            calc.y[i] = IF d.n < 25 * d.d THEN "low"
                        ELSE IF d.n < 60 * d.d THEN "medium"
                        ELSE "high"

\* classifyRisk was applied to 24.999 and to 25.
C9_AtThreshold ==
  /\ calc.fn = "classifyRisk"
  /\ calc.x = <<Num(24999, 1000), Whole(25)>>
  /\ calc.y = <<"low", "medium">>

\* The tiers, in order.
Tier(riskLevel) ==
  CASE riskLevel = "low" -> 1
    [] riskLevel = "medium" -> 2
    [] riskLevel = "high" -> 3

Unusable(v) == ~IsNumber(v) \/ ~IsFinite(v)

\* The record was scored from an unusable input and has deviation 0, "low".
FailedSoft(r, variant) ==
  (IF variant = "B"
   THEN Unusable(Get(r, "score"))
   ELSE Unusable(Get(r, "accuracy")) \/ Unusable(Get(r, "avgReactionMs")))
    => r.deviationScore = Whole(0) /\ r.riskLevel = "low"

\* C11: scoring fails soft: a record whose score (Variant B) or whose accuracy
\* or avgReactionMs (Variant A) is not a number or not finite has
\* deviationScore 0 and riskLevel "low".
C11_FailsSoft ==
  /\ \A i \in 1..Len(sessions) :
       FailedSoft(sessions[i], IF program = "part_000" THEN "B" ELSE "A")
  /\ \A i \in 1..Len(srvSessions) :
       FailedSoft(srvSessions[i], IF program = "app.js server" THEN "A" ELSE "B")

\* The server of part_000 stored the score of the body when that is a number
\* and the body's roundsCorrect when not, and scored the record with it.
ServerScoreFallback ==
  program \in {"part_000 server", "part_000"}
    /\ resp.op = "POST /api/results" /\ resp.status = 200 =>
    LET r == Head(srvSessions)
        given == Get(resp.req, "score")
        effective == IF given.k \in {"num", "inf", "nan"} THEN given
                     ELSE resp.req.roundsCorrect
    IN  /\ r.score = effective
        /\ r.deviationScore = computeDeviationScoreFromScore(effective)
        /\ r.roundsCorrect = resp.req.roundsCorrect

\* The record ingestResult adds has this score, and the deviation of it.
IngestedWithScore(score) ==
  /\ Len(sessions') = Len(sessions) + 1
  /\ Head(sessions').score = score
  /\ Head(sessions').deviationScore = computeDeviationScoreFromScore(score)

\* A step of the browser script of part_000: a result from the form, which
\* has no score, is ingested with roundsCorrect as its score; the demo's,
\* which has one, with that score.
ClientScoreFallback ==
  /\ \A f \in FormSubmissionsB, patientId \in FormPatientIds :
       ResultFormB(f[1], f[2], f[3], f[4], patientId) /\ sessions' # sessions =>
         IngestedWithScore(f[3])
  /\ DemoClickB => IngestedWithScore(Head(sessions').roundsCorrect)

\* C12: a result with no numeric score is stored and scored with roundsCorrect
\* as its score, a result with a numeric score with that score, by the
\* browser's ingestResult and by POST /api/results.
C12_ScoreFallsBackToRoundsCorrect == []ServerScoreFallback /\ [][ClientScoreFallback]_vars

\* The server stored a result whose body had null for a score.
C12_StoredWithoutScore ==
  /\ program = "part_000 server"
  /\ resp.op = "POST /api/results"
  /\ resp.status = 200
  /\ Get(resp.req, "score") = Null
  /\ Head(srvSessions).score = resp.req.roundsCorrect

\* The field of a request body, or the default when the body has none.
Supplied(body, f, default) ==
  IF f \in DOMAIN body /\ body[f] # Null THEN body[f] ELSE default

\* C13: the record POST /score stores for a numeric score has the body's
\* roundsPlayed, roundsCorrect and avgReactionMs where the body has them, and
\* otherwise 10, the score clamped to [0, roundsPlayed] and 2000; its accuracy
\* is roundsCorrect / roundsPlayed, or 0 when roundsPlayed is 0.
C13_ScoreDefaults ==
  program \in ServerPrograms /\ resp.op = "POST /score" /\ resp.status = 200 =>
    LET r == Head(srvSessions)
        score == resp.req.score
        roundsPlayed == Supplied(resp.req, "roundsPlayed", Whole(10))
        clamped == IF Lt(score, Whole(0)) THEN Whole(0)
                   ELSE IF Gt(score, roundsPlayed) THEN roundsPlayed
                   ELSE score
    IN  /\ r.score = score
        /\ r.roundsPlayed = roundsPlayed
        /\ r.roundsCorrect = Supplied(resp.req, "roundsCorrect", clamped)
        /\ r.avgReactionMs = Supplied(resp.req, "avgReactionMs", Whole(2000))
        /\ r.accuracy = IF roundsPlayed = Whole(0) THEN Whole(0)
                        ELSE Div(r.roundsCorrect, roundsPlayed)

\* A server stored the record of a body that holds a score of 3 and no more.
C13_OnlyScoreGiven ==
  /\ program \in ServerPrograms
  /\ resp.op = "POST /score"
  /\ resp.status = 200
  /\ resp.req = [score |-> Whole(3)]
  /\ Head(srvSessions).roundsPlayed = Whole(10)
  /\ Head(srvSessions).roundsCorrect = Whole(3)
  /\ Head(srvSessions).avgReactionMs = Whole(2000)
  /\ Head(srvSessions).accuracy = Num(3, 10)

\* A step in which a sync ends without the server storing anything.
SyncFailed == Len(outbox') = Len(outbox) - 1 /\ srvSessions' = srvSessions

\* A step in which the browser script ingests a result.
Ingested == Len(ingested') = Len(ingested) + 1

\* A step of part_000: an ingest puts the scored record at the head of the
\* list while its sync is still in flight; the end of a sync, failed or not,
\* leaves the list and the baseline as they are.
SyncApartFromIngest ==
  /\ Ingested =>
       /\ sessions' = <<ingested'[Len(ingested')]>> \o sessions
       /\ ConsistentB(Head(sessions'))
       /\ outbox' = Append(outbox, JsonRecord(Head(sessions')))
  /\ SyncFailed => UNCHANGED <<sessions, baseline, ingested>>
  /\ Len(outbox') < Len(outbox) => UNCHANGED sessions

\* C14: a failed sync neither blocks nor corrupts local ingestion: ingestResult
\* has put the record at the head of the list before the outcome of the sync
\* is known, and a sync that fails leaves the list exactly as it was.
C14_FailedSyncLeavesList == [][program = "part_000" => SyncApartFromIngest]_vars

\* The sync of the one ingested record has failed; the record heads the list.
C14_KeptAfterFailedSync ==
  /\ program = "part_000"
  /\ Len(ingested) = 1
  /\ outbox = <<>>
  /\ srvSessions = <<>>
  /\ sessions = <<ingested[1]>>

\* A step in which the response of a poll is applied or lost.
PollDelivered == Len(inbox') = Len(inbox) - 1

\* Every record of the list old is in the list new.
StillHeld(old, new) ==
  \A i \in 1..Len(old) : \E j \in 1..Len(new) : SameResult(old[i], new[j])

\* No two records of the list have the same id.
HeldOnce(list) ==
  \A i \in 1..Len(list), j \in 1..Len(list) :
    i # j /\ "id" \in DOMAIN list[i] /\ "id" \in DOMAIN list[j] => list[i].id # list[j].id

\* C15: applying the response of a poll, whichever poll it answers and
\* whatever was ingested since, never takes a record off the browser's list
\* nor puts one on it twice.
C15_PollKeepsRecords ==
  [][program = "part_000" /\ PollDelivered =>
       StillHeld(sessions, sessions') /\ HeldOnce(sessions')]_vars

\* The derived fields of the head record are what they were.
HeadScoreKept ==
  sessions # <<>> =>
    /\ sessions' # <<>>
    /\ Head(sessions').deviationScore = Head(sessions).deviationScore
    /\ Head(sessions').riskLevel = Head(sessions).riskLevel

\* C16: in part_000, submitting the baseline form, with valid or invalid
\* values, leaves the deviationScore and the riskLevel of the head record as
\* they were, whether the record was ingested in the browser or loaded from
\* the server.
C16_BaselineSubmitKeepsHeadScore ==
  [][\A submission \in BaselineSubmissionsB :
       BaselineFormB(submission[1], submission[2]) =>
         /\ HeadScoreKept
         \* and a second submit changes nothing further
         /\ sessions' # <<>> => RescoredB(Head(sessions')) = Head(sessions')]_vars

\* The server's list as the browser holds it: each record as JSON carries
\* it, its timestamp a Date again.
Mirror(list) ==
  [i \in 1..Len(list) |->
     [f \in DOMAIN JsonRecord(list[i]) |->
        IF f = "timestamp" THEN Date(list[i].timestamp.t) ELSE JsonRecord(list[i])[f]]]

\* What the browser computed for a record at ingest, or the server on storing.
Scored(r) ==
  [f \in {"sequenceLength", "roundsPlayed", "roundsCorrect", "avgReactionMs", "score",
          "deviationScore", "riskLevel"} |-> Get(r, f)]

\* The records of the server's list that came from the browser script.
FromWeb(list) == {j \in 1..Len(list) : list[j].source = "web"}

\* No sync is pending and none has failed.
AllSynced == outbox = <<>> /\ Cardinality(FromWeb(srvSessions)) = Len(ingested)

\* Nothing is pending: no sync, no poll, no response.
Quiescent == AllSynced /\ polls = 0 /\ inbox = <<>>

\* C17, as stated: once every pending sync and poll has completed
\* successfully (the response of the last one has just been applied and
\* nothing is pending), the browser's list is the server's list.
C17_MirrorWhenQuiescent ==
  [][program = "part_000" /\ LoadDeliver /\ Quiescent' =>
       sessions' = Mirror(srvSessions')]_vars

\* Every response in flight was made from the server's present list.
NoStaleResponse == \A i \in 1..Len(inbox) : inbox[i] = JsonSessions(srvSessions)

\* Each record the browser ingested is on the server as many times as it was
\* ingested, with the score, deviationScore and riskLevel computed at ingest.
EachIngestedOnce ==
  \A k \in 1..Len(ingested) :
    Cardinality({j \in FromWeb(srvSessions) : Scored(srvSessions[j]) = Scored(ingested[k])})
      = Cardinality({l \in 1..Len(ingested) : Scored(ingested[l]) = Scored(ingested[k])})

\* A step of a poll: its start, its answer, the arrival or the loss of its
\* response.
OnlyPolls ==
  /\ <<polls, inbox>>' # <<polls, inbox>>
  /\ UNCHANGED <<baseline, srvSessions, outbox, ingested>>

\* A step of part_000 once every sync has succeeded: applying a response made
\* from the server's present list makes the browser's list the server's, and
\* polls keep it so.
CurrentPollMirrors ==
  program = "part_000" /\ AllSynced /\ NoStaleResponse =>
    /\ LoadDeliver => sessions' = Mirror(srvSessions)
    /\ sessions = Mirror(srvSessions) /\ OnlyPolls => sessions' = Mirror(srvSessions')

\* C17, amended: once every sync has succeeded and the response of a poll
\* that the server answered from its present list has been applied, no older
\* response being in flight, the browser's list is the server's list, in the
\* same order; each record the browser ingested is in it once, scored as at
\* ingest; and it stays so under further polls.
C17_MirrorAfterCurrentPoll ==
  [](program = "part_000" /\ AllSynced => EachIngestedOnce)
    /\ [][CurrentPollMirrors]_vars

\* The browser's list is the server's, which holds a device's record and the
\* one the browser ingested and synced; nothing is pending.
C17_Converged ==
  /\ program = "part_000"
  /\ Quiescent
  /\ Len(ingested) = 1
  /\ Len(srvSessions) = 2
  /\ sessions = Mirror(srvSessions)

=============================================================================
